---- MODULE Spec2Model ----
(***************************************************************************)
(* Model of tollc/__init__.py: create_cap, clear_buffer and cap_context.   *)
(*                                                                         *)
(* One coordinator thread runs cap_context calls back to back (the stress  *)
(* doctest); call h creates handle h.  In low-latency mode the coordinator *)
(* starts one thread running clear_buffer on that handle.                  *)
(* cv2.VideoCapture is the external library: a handle has an open/closed   *)
(* status; the camera serves one open handle at a time and queues the      *)
(* frames it captures for it, oldest first.                                *)
(***************************************************************************)
EXTENDS Naturals, Sequences, FiniteSets

\* ---- bounds of the model ----
MaxCycles == 2
MaxQueue == 2
MaxFrames == 3

\* sizes a caller may pass: a valid one and two invalid ones
Sizes == {<<640, 480>>, <<0, 480>>, <<640, 0>>}

Handles == 1..MaxCycles

VARIABLES
    cycle,        \* number of the current cap_context call (0: none yet)
    pc,           \* position of the coordinator thread
    args,         \* width, height, low_latency of the current call
    pipeline,     \* pipeline parameters of the current handle
    daemonUp,     \* daemon and sensor were available to the current open
    opened,       \* opened[h]: what cap.isOpened() reports for handle h
    openOk,       \* openOk[h]: whether the pipeline of handle h opened
    queue,        \* frames queued for the open handle, oldest first
    captured,     \* number of the newest frame captured for the open handle
    dpc,          \* dpc[h]: position of the clear_buffer thread of handle h
    scope,        \* scope[h]: progress of the with-block of call h
    exitKind,     \* how the body of the current with-block was left
    exc,          \* the exception propagating out of cap_context, if any
    lastRead,     \* outcome of the last cap.read() of the current body, and
                  \* whether a grab on the handle had failed before it
    alternating,  \* low_latency has alternated True, False, ... so far
    creates,      \* creates[h]: number of cv2.VideoCapture(...) calls for h
    releases,     \* releases[h]: number of release() calls on handle h
    releasedBy,   \* releasedBy[h]: threads that called release() on handle h
    grabbed,      \* grabbed[h]: grab() has been called on handle h
    closedGrabs,  \* closedGrabs[h]: grab() calls made on h while closed
    failedGrabs,  \* failedGrabs[h]: a grab() on open h reported failure
    joinCalls     \* joinCalls[h]: number of clear_thread.join() calls

vars == <<cycle, pc, args, pipeline, daemonUp, opened, openOk, queue,
          captured, dpc, scope, exitKind, exc, lastRead, alternating,
          creates, releases, releasedBy, grabbed, closedGrabs, failedGrabs,
          joinCalls>>

handleVars == <<opened, openOk, queue, captured>>
callVars == <<args, pipeline, daemonUp, creates, alternating>>
ghostRelease == <<releases, releasedBy>>
ghostGrab == <<grabbed, closedGrabs, failedGrabs>>

NoRead == [done |-> FALSE, ok |-> FALSE, frame |-> 0, newest |-> 0,
           afterFailedGrab |-> FALSE]

\* mutant: the two noise-reduction modes are swapped
create_capTnrSwapped(w, h, ll) ==
    [sensor_mode    |-> 0,
     tnr_mode       |-> IF ll THEN 2 ELSE 0,
     interpolation  |-> IF ll THEN "Nearest" ELSE "Nicest",
     output_buffers |-> 1,
     width          |-> w,
     height         |-> h]

\* ---- create_cap, lines 30-40: the pipeline description ----
create_cap(w, h, ll) ==
    [sensor_mode    |-> 0,
     tnr_mode       |-> IF ll THEN 0 ELSE 2,
     interpolation  |-> IF ll THEN "Nearest" ELSE "Nicest",
     output_buffers |-> 1,
     width          |-> w,
     height         |-> h]

\* cv2.VideoCapture(...) opens when the description is valid, the daemon is
\* available and no other handle holds the sensor; otherwise it returns a
\* closed handle.
PipelineOpens(p, daemonOk, busy) ==
    p.width > 0 /\ p.height > 0 /\ daemonOk /\ ~busy

DefaultArgs == [width |-> 640, height |-> 480, low_latency |-> TRUE]

Init ==
    /\ cycle = 0
    /\ pc = "idle"
    /\ args = DefaultArgs
    /\ pipeline = create_cap(640, 480, TRUE)
    /\ daemonUp = FALSE
    /\ opened = [h \in Handles |-> FALSE]
    /\ openOk = [h \in Handles |-> FALSE]
    /\ queue = <<>>
    /\ captured = 0
    /\ dpc = [h \in Handles |-> "none"]
    /\ scope = [h \in Handles |-> "none"]
    /\ exitKind = "none"
    /\ exc = "none"
    /\ lastRead = NoRead
    /\ alternating = TRUE
    /\ creates = [h \in Handles |-> 0]
    /\ releases = [h \in Handles |-> 0]
    /\ releasedBy = [h \in Handles |-> {}]
    /\ grabbed = [h \in Handles |-> FALSE]
    /\ closedGrabs = [h \in Handles |-> 0]
    /\ failedGrabs = [h \in Handles |-> FALSE]
    /\ joinCalls = [h \in Handles |-> 0]

\* ---- the caller: with cap_context(width, height, low_latency) as cap ----
\* (the stress doctest of lines 96-105 passes low_latency = (i % 2 == 0))
CallCapContext(size, ll) ==
    /\ pc \in {"idle", "returned", "enter_failed"}
    /\ cycle < MaxCycles
    /\ cycle' = cycle + 1
    /\ args' = [width |-> size[1], height |-> size[2], low_latency |-> ll]
    /\ alternating' = (alternating /\ (ll = (cycle % 2 = 0)))
    /\ pc' = "create"
    /\ exitKind' = "none"
    /\ exc' = "none"
    /\ lastRead' = NoRead
    /\ UNCHANGED <<pipeline, daemonUp, creates, handleVars, dpc, scope,
                   ghostRelease, ghostGrab, joinCalls>>

\* mutant: the handle is released again before it is handed to the body
CapContextCreateThenRelease(daemonOk) ==
    /\ pc = "create"
    /\ pipeline' = create_cap(args.width, args.height, args.low_latency)
    /\ opened' = [opened EXCEPT ![cycle] = FALSE]
    /\ openOk' = [openOk EXCEPT ![cycle] =
                    PipelineOpens(create_cap(args.width, args.height,
                                             args.low_latency),
                                  daemonOk, \E g \in Handles : opened[g])]
    /\ daemonUp' = (daemonOk /\ ~\E g \in Handles : opened[g])
    /\ creates' = [creates EXCEPT ![cycle] = @ + 1]
    /\ pc' = "if_ll"
    /\ UNCHANGED <<cycle, args, alternating, queue, captured, dpc, scope,
                   exitKind, exc, lastRead, ghostRelease, ghostGrab,
                   joinCalls>>

\* line 108: cap = create_cap(width, height, low_latency=low_latency)
CapContextCreate(daemonOk) ==
    /\ pc = "create"
    /\ LET p == create_cap(args.width, args.height, args.low_latency)
           busy == \E g \in Handles : opened[g]
           ok == PipelineOpens(p, daemonOk, busy)
       IN /\ pipeline' = p
          /\ opened' = [opened EXCEPT ![cycle] = ok]
          /\ openOk' = [openOk EXCEPT ![cycle] = ok]
    /\ daemonUp' = (daemonOk /\ ~\E g \in Handles : opened[g])
    /\ creates' = [creates EXCEPT ![cycle] = @ + 1]
    /\ pc' = "if_ll"
    /\ UNCHANGED <<cycle, args, alternating, queue, captured, dpc, scope,
                   exitKind, exc, lastRead, ghostRelease, ghostGrab,
                   joinCalls>>

\* mutant: the thread is started whatever low_latency is
CapContextAlwaysStart ==
    /\ pc = "if_ll"
    /\ pc' = "start"
    /\ UNCHANGED <<cycle, callVars, handleVars, dpc, scope, exitKind, exc,
                   lastRead, ghostRelease, ghostGrab, joinCalls>>

\* line 110: if low_latency; when false, line 114 hands cap to the body
CapContextIfLowLatency ==
    /\ pc = "if_ll"
    /\ IF args.low_latency
       THEN /\ pc' = "start"
            /\ UNCHANGED scope
       ELSE /\ pc' = "body"
            /\ scope' = [scope EXCEPT ![cycle] = "entered"]
    /\ UNCHANGED <<cycle, callVars, handleVars, dpc, exitKind, exc,
                   lastRead, ghostRelease, ghostGrab, joinCalls>>

\* mutant: the started thread grabs before its first status check
CapContextStartThreadGrabFirst ==
    /\ pc = "start"
    /\ dpc' = [dpc EXCEPT ![cycle] = "grab"]
    /\ pc' = "body"
    /\ scope' = [scope EXCEPT ![cycle] = "entered"]
    /\ UNCHANGED <<cycle, callVars, handleVars, exitKind, exc, lastRead,
                   ghostRelease, ghostGrab, joinCalls>>

\* lines 111-112: clear_thread = threading.Thread(...); clear_thread.start()
\* and then line 114 hands cap to the body
CapContextStartThread ==
    /\ pc = "start"
    /\ dpc' = [dpc EXCEPT ![cycle] = "check"]
    /\ pc' = "body"
    /\ scope' = [scope EXCEPT ![cycle] = "entered"]
    /\ UNCHANGED <<cycle, callVars, handleVars, exitKind, exc, lastRead,
                   ghostRelease, ghostGrab, joinCalls>>

\* mutant: cap_context checks the handle and raises when it is closed
CapContextRaisesWhenClosed ==
    /\ pc = "start"
    /\ exc' = IF opened[cycle] THEN "thread_start" ELSE "open_failed"
    /\ pc' = "enter_failed"
    /\ scope' = [scope EXCEPT ![cycle] = "failed"]
    /\ UNCHANGED <<cycle, callVars, handleVars, dpc, exitKind, lastRead,
                   ghostRelease, ghostGrab, joinCalls>>

\* lines 111-112 raising (Thread.start: "can't start new thread"): the
\* statements are outside the try, so the error leaves cap_context at once
CapContextStartThreadFails ==
    /\ pc = "start"
    /\ exc' = "thread_start"
    /\ pc' = "enter_failed"
    /\ scope' = [scope EXCEPT ![cycle] = "failed"]
    /\ UNCHANGED <<cycle, callVars, handleVars, dpc, exitKind, lastRead,
                   ghostRelease, ghostGrab, joinCalls>>

\* ---- the body of the with-block ----
\* cap.read(): fails on a closed handle, blocks while an open handle has no
\* frame queued, otherwise hands out the oldest queued frame
BodyRead ==
    /\ pc = "body"
    /\ \/ /\ ~opened[cycle]
          /\ lastRead' = [done |-> TRUE, ok |-> FALSE, frame |-> 0,
                          newest |-> 0,
                          afterFailedGrab |-> failedGrabs[cycle]]
          /\ UNCHANGED queue
       \/ /\ opened[cycle]
          /\ queue # <<>>
          /\ lastRead' = [done |-> TRUE, ok |-> TRUE, frame |-> Head(queue),
                          newest |-> captured,
                          afterFailedGrab |-> failedGrabs[cycle]]
          /\ queue' = Tail(queue)
    /\ UNCHANGED <<cycle, pc, callVars, opened, openOk, captured, dpc,
                   scope, exitKind, exc, ghostRelease, ghostGrab, joinCalls>>

ExitKinds == {"normal", "return", "raise"}

\* mutant: no try/finally, an exception of the body skips the clean-up
BodyExitRaiseSkipsFinally(kind) ==
    /\ pc = "body"
    /\ exitKind' = kind
    /\ exc' = IF kind = "raise" THEN "body" ELSE "none"
    /\ pc' = IF kind = "raise" THEN "returned" ELSE "release"
    /\ scope' = IF kind = "raise"
                THEN [scope EXCEPT ![cycle] = "exited"]
                ELSE scope
    /\ UNCHANGED <<cycle, callVars, handleVars, dpc, lastRead,
                   ghostRelease, ghostGrab, joinCalls>>

\* the body ends: falls off its end, returns early, or raises.  The
\* generator is resumed (or thrown into) at the yield of line 114, inside
\* the try, so control goes to the finally clause of line 115.
BodyExit(kind) ==
    /\ pc = "body"
    /\ exitKind' = kind
    /\ exc' = IF kind = "raise" THEN "body" ELSE "none"
    /\ pc' = "release"
    /\ UNCHANGED <<cycle, callVars, handleVars, dpc, scope, lastRead,
                   ghostRelease, ghostGrab, joinCalls>>

\* mutant: the release is not issued before the join
FinallyReleaseMissing ==
    /\ pc = "release"
    /\ pc' = "if_join"
    /\ UNCHANGED <<cycle, callVars, handleVars, dpc, scope, exitKind, exc,
                   lastRead, ghostRelease, ghostGrab, joinCalls>>

\* ---- the finally clause of cap_context ----
\* line 117: cap.release(); the pipeline of the handle is torn down
FinallyRelease ==
    /\ pc = "release"
    /\ IF opened[cycle]
       THEN queue' = <<>> /\ captured' = 0
       ELSE UNCHANGED <<queue, captured>>
    /\ opened' = [opened EXCEPT ![cycle] = FALSE]
    /\ releases' = [releases EXCEPT ![cycle] = @ + 1]
    /\ releasedBy' = [releasedBy EXCEPT ![cycle] = @ \cup {"coordinator"}]
    /\ pc' = "if_join"
    /\ UNCHANGED <<cycle, callVars, openOk, dpc, scope, exitKind, exc,
                   lastRead, ghostGrab, joinCalls>>

\* line 118: if low_latency; when false, cap_context returns (or re-raises
\* the body's exception) to the with statement
FinallyIfLowLatency ==
    /\ pc = "if_join"
    /\ IF args.low_latency
       THEN /\ pc' = "join"
            /\ UNCHANGED scope
       ELSE /\ pc' = "returned"
            /\ scope' = [scope EXCEPT ![cycle] = "exited"]
    /\ UNCHANGED <<cycle, callVars, handleVars, dpc, exitKind, exc,
                   lastRead, ghostRelease, ghostGrab, joinCalls>>

\* line 120: clear_thread.join() is called
FinallyJoinCall ==
    /\ pc = "join"
    /\ joinCalls' = [joinCalls EXCEPT ![cycle] = @ + 1]
    /\ pc' = "joining"
    /\ UNCHANGED <<cycle, callVars, handleVars, dpc, scope, exitKind, exc,
                   lastRead, ghostRelease, ghostGrab>>

\* mutant: the thread is signalled but not waited for
FinallyJoinReturnNoWait ==
    /\ pc = "joining"
    /\ pc' = "returned"
    /\ scope' = [scope EXCEPT ![cycle] = "exited"]
    /\ UNCHANGED <<cycle, callVars, handleVars, dpc, exitKind, exc,
                   lastRead, ghostRelease, ghostGrab, joinCalls>>

\* line 120: join() returns once the thread has terminated; cap_context
\* then returns (or re-raises the body's exception) to the with statement
FinallyJoinReturn ==
    /\ pc = "joining"
    /\ dpc[cycle] = "done"
    /\ pc' = "returned"
    /\ scope' = [scope EXCEPT ![cycle] = "exited"]
    /\ UNCHANGED <<cycle, callVars, handleVars, dpc, exitKind, exc,
                   lastRead, ghostRelease, ghostGrab, joinCalls>>

\* mutant: the status query never reports closed to the thread (it waits
\* for a stop signal nobody sends)
ClearBufferIsOpenedNeverFalse(h) ==
    /\ dpc[h] = "check"
    /\ opened[h]
    /\ dpc' = [dpc EXCEPT ![h] = "grab"]
    /\ UNCHANGED <<cycle, pc, callVars, handleVars, scope, exitKind, exc,
                   lastRead, ghostRelease, ghostGrab, joinCalls>>

\* ---- clear_buffer, run by the thread of handle h ----
\* line 45: while cap.isOpened()
ClearBufferIsOpened(h) ==
    /\ dpc[h] = "check"
    /\ dpc' = [dpc EXCEPT ![h] = IF opened[h] THEN "grab" ELSE "done"]
    /\ UNCHANGED <<cycle, pc, callVars, handleVars, scope, exitKind, exc,
                   lastRead, ghostRelease, ghostGrab, joinCalls>>

\* mutant: the drainer reacts to a failed grab by releasing the handle
ClearBufferGrabReleasesOnFailure(h, hiccup) ==
    /\ dpc[h] = "grab"
    /\ grabbed' = [grabbed EXCEPT ![h] = TRUE]
    /\ closedGrabs' = [closedGrabs EXCEPT
                         ![h] = IF opened[h] THEN @ ELSE @ + 1]
    /\ IF opened[h] /\ queue # <<>> /\ ~hiccup
       THEN /\ queue' = Tail(queue)
            /\ UNCHANGED <<failedGrabs, opened>>
       ELSE /\ UNCHANGED queue
            /\ failedGrabs' = [failedGrabs EXCEPT
                                 ![h] = IF opened[h] THEN TRUE ELSE @]
            /\ opened' = [opened EXCEPT ![h] = FALSE]
    /\ dpc' = [dpc EXCEPT ![h] = "yield"]
    /\ UNCHANGED <<cycle, pc, callVars, openOk, captured, scope, exitKind,
                   exc, lastRead, ghostRelease, joinCalls>>

\* mutant: the loop stops at the first grab that reports failure
ClearBufferGrabBreaksOnFailure(h, hiccup) ==
    /\ dpc[h] = "grab"
    /\ grabbed' = [grabbed EXCEPT ![h] = TRUE]
    /\ closedGrabs' = [closedGrabs EXCEPT
                         ![h] = IF opened[h] THEN @ ELSE @ + 1]
    /\ IF opened[h] /\ queue # <<>> /\ ~hiccup
       THEN /\ queue' = Tail(queue)
            /\ UNCHANGED failedGrabs
            /\ dpc' = [dpc EXCEPT ![h] = "yield"]
       ELSE /\ UNCHANGED queue
            /\ failedGrabs' = [failedGrabs EXCEPT
                                 ![h] = IF opened[h] THEN TRUE ELSE @]
            /\ dpc' = [dpc EXCEPT ![h] = "done"]
    /\ UNCHANGED <<cycle, pc, callVars, opened, openOk, captured, scope,
                   exitKind, exc, lastRead, ghostRelease, joinCalls>>

\* line 48: cap.grab(), outcome ignored.  On an open handle with a queued
\* frame it discards the oldest one unless the grab fails (hiccup); on a
\* closed handle or an empty queue it discards nothing and reports failure.
ClearBufferGrab(h, hiccup) ==
    /\ dpc[h] = "grab"
    /\ grabbed' = [grabbed EXCEPT ![h] = TRUE]
    /\ closedGrabs' = [closedGrabs EXCEPT
                         ![h] = IF opened[h] THEN @ ELSE @ + 1]
    /\ IF opened[h] /\ queue # <<>> /\ ~hiccup
       THEN /\ queue' = Tail(queue)
            /\ UNCHANGED failedGrabs
       ELSE /\ UNCHANGED queue
            /\ failedGrabs' = [failedGrabs EXCEPT
                                 ![h] = IF opened[h] THEN TRUE ELSE @]
    /\ dpc' = [dpc EXCEPT ![h] = "yield"]
    /\ UNCHANGED <<cycle, pc, callVars, opened, openOk, captured, scope,
                   exitKind, exc, lastRead, ghostRelease, joinCalls>>

\* mutant: after the yield the loop grabs again without asking isOpened
ClearBufferSleepSkipsCheck(h) ==
    /\ dpc[h] = "yield"
    /\ dpc' = [dpc EXCEPT ![h] = "grab"]
    /\ UNCHANGED <<cycle, pc, callVars, handleVars, scope, exitKind, exc,
                   lastRead, ghostRelease, ghostGrab, joinCalls>>

\* line 52: time.sleep(0)
ClearBufferSleep(h) ==
    /\ dpc[h] = "yield"
    /\ dpc' = [dpc EXCEPT ![h] = "check"]
    /\ UNCHANGED <<cycle, pc, callVars, handleVars, scope, exitKind, exc,
                   lastRead, ghostRelease, ghostGrab, joinCalls>>

\* ---- the sensor: captures the next frame into the open handle's queue ----
Capture ==
    /\ \E h \in Handles : opened[h]
    /\ captured < MaxFrames
    /\ Len(queue) < MaxQueue
    /\ captured' = captured + 1
    /\ queue' = Append(queue, captured + 1)
    /\ UNCHANGED <<cycle, pc, callVars, opened, openOk, dpc, scope,
                   exitKind, exc, lastRead, ghostRelease, ghostGrab,
                   joinCalls>>

Next ==
    \/ \E size \in Sizes, ll \in BOOLEAN : CallCapContext(size, ll)
    \/ \E daemonOk \in BOOLEAN : CapContextCreate(daemonOk)
    \/ CapContextIfLowLatency
    \/ CapContextStartThread
    \/ CapContextStartThreadFails
    \/ BodyRead
    \/ \E kind \in ExitKinds : BodyExit(kind)
    \/ FinallyRelease
    \/ FinallyIfLowLatency
    \/ FinallyJoinCall
    \/ FinallyJoinReturn
    \/ \E h \in Handles : ClearBufferIsOpened(h)
    \/ \E h \in Handles, hiccup \in BOOLEAN : ClearBufferGrab(h, hiccup)
    \/ \E h \in Handles : ClearBufferSleep(h)
    \/ Capture

Spec == Init /\ [][Next]_vars

\* ---- fair scheduling ----
\* one step of the clear_buffer thread of handle h
DrainerStep(h) ==
    \/ ClearBufferIsOpened(h)
    \/ \E hiccup \in BOOLEAN : ClearBufferGrab(h, hiccup)
    \/ ClearBufferSleep(h)

\* every started thread is scheduled again and again (threads run in
\* parallel, time.sleep(0) only yields), and a join on a terminated thread
\* returns
FairSpec ==
    /\ Spec
    /\ \A h \in Handles : WF_vars(DrainerStep(h))
    /\ WF_vars(FinallyJoinReturn)

\* ---- vocabulary of the properties ----
\* handle h exists: create_cap has returned it
Created(h) == creates[h] > 0
ValidArgs == args.width > 0 /\ args.height > 0
DrainerAlive(h) == dpc[h] \in {"check", "grab", "yield"}
\* a grab() call on handle h completes in this step
GrabStep(h) == dpc[h] = "grab" /\ dpc'[h] = "yield"

TypeOK ==
    /\ cycle \in 0..MaxCycles
    /\ pc \in {"idle", "create", "if_ll", "start", "body", "release",
               "if_join", "join", "joining", "returned", "enter_failed"}
    /\ Len(queue) <= MaxQueue
    /\ captured \in 0..MaxFrames
    /\ \A h \in Handles :
         /\ dpc[h] \in {"none", "check", "grab", "yield", "done"}
         /\ scope[h] \in {"none", "entered", "exited", "failed"}

\* ---- the claims ----

\* C1: once control has returned from the scope exit of call h, handle h
\* reports closed and no clear_buffer thread of h is alive (in low-latency
\* mode the thread was started and has terminated); from then on no grab
\* is ever made on h.
C1_ClosedAndJoinedAtReturn ==
    /\ [](\A h \in Handles :
            scope[h] = "exited" =>
              /\ ~opened[h]
              /\ ~DrainerAlive(h)
              /\ (h = cycle /\ args.low_latency) => dpc[h] = "done")
    /\ [][\A h \in Handles : scope[h] = "exited" => ~GrabStep(h)]_vars

\* a low-latency scope whose drainer grabbed at least once has been left
C1_Witness ==
    \E h \in Handles :
      scope[h] = "exited" /\ openOk[h] /\ grabbed[h] /\ dpc[h] = "done"

\* C2: however the body is left (normal, early return, exception), control
\* takes the finally path, and when it reaches the caller the handle has
\* been released and, in low-latency mode, the thread joined; a raised
\* exception is still propagating.
C2_EveryExitThroughFinally ==
    /\ (exitKind # "none" /\ pc # "returned") =>
          /\ pc \in {"release", "if_join", "join", "joining"}
          /\ exitKind = "raise" => exc = "body"
    /\ pc = "returned" =>
          /\ exitKind \in ExitKinds
          /\ releases[cycle] = 1
          /\ ~opened[cycle]
          /\ args.low_latency => (joinCalls[cycle] = 1 /\ dpc[cycle] = "done")
          /\ exc = (IF exitKind = "raise" THEN "body" ELSE "none")

\* the body of an open low-latency scope raised and the error reached the
\* caller
C2_Witness ==
    /\ pc = "returned"
    /\ exitKind = "raise"
    /\ args.low_latency
    /\ openOk[cycle]

\* C3: whenever join has been called on the thread of handle h, release
\* has already been called on h and h reports closed.
C3_ReleaseBeforeJoin ==
    /\ \A h \in Handles :
         joinCalls[h] > 0 => (releases[h] > 0 /\ ~opened[h])
    /\ pc \in {"join", "joining"} => ~opened[cycle]

\* the coordinator waits in join while the drainer of a handle that had
\* opened is still running
C3_Witness ==
    /\ pc = "joining"
    /\ openOk[cycle]
    /\ DrainerAlive(cycle)

\* C4: in low-latency mode every successful read of the body returns the
\* newest frame captured so far.
C4_ReadReturnsNewest ==
    (args.low_latency /\ lastRead.done /\ lastRead.ok) =>
        lastRead.frame = lastRead.newest

\* C5: in a call with low_latency false no thread exists for the handle,
\* no grab is made on it, the coordinator never starts a thread or joins,
\* and the scope exit has released the handle.
C5_NoDrainerWhenNotLowLatency ==
    (cycle > 0 /\ ~args.low_latency) =>
        /\ dpc[cycle] = "none"
        /\ ~grabbed[cycle]
        /\ joinCalls[cycle] = 0
        /\ pc \notin {"start", "join", "joining", "enter_failed"}
        /\ pc = "returned" => (releases[cycle] = 1 /\ ~opened[cycle])

\* a high-quality scope on an open handle was used for a read and left
C5_Witness ==
    /\ pc = "returned"
    /\ ~args.low_latency
    /\ openOk[cycle]
    /\ lastRead.ok

\* C6: release is called exactly once on every handle cap_context created,
\* by the coordinator only: never twice, never by the drainer, and once
\* the call is over the one release has happened.
C6_ReleasedExactlyOnce ==
    \A h \in Handles :
      /\ releases[h] <= 1
      /\ releasedBy[h] \subseteq {"coordinator"}
      /\ scope[h] \in {"exited", "failed"} => releases[h] = 1

\* C7: a handle that opened reports open from the hand-over to the body
\* until the coordinator issues the release.
C7_OpenWhileBodyRuns ==
    \A h \in Handles :
      (openOk[h] /\ scope[h] = "entered" /\ releases[h] = 0) => opened[h]

\* the body runs on an open handle on which a grab of the drainer failed
C7_Witness ==
    /\ pc = "body"
    /\ openOk[cycle]
    /\ failedGrabs[cycle]
    /\ opened[cycle]

C10_CyclesEndClean ==
    alternating =>
      /\ \A h \in Handles :
           scope[h] \in {"exited", "failed"} =>
             (~opened[h] /\ ~DrainerAlive(h))
      /\ Cardinality({h \in Handles : DrainerAlive(h)}) <= 1

\* C11: the pipeline of every handle create_cap has built has sensor mode
\* 0 and one output buffer; its noise reduction is 0 and its interpolation
\* Nearest when low_latency is true, 2 and Nicest when false; its width
\* and height are the ones passed in.
C11_PipelineParameters ==
    (cycle > 0 /\ pc # "create") =>
        /\ pipeline.sensor_mode = 0
        /\ pipeline.output_buffers = 1
        /\ args.low_latency =>
             (pipeline.tnr_mode = 0 /\ pipeline.interpolation = "Nearest")
        /\ ~args.low_latency =>
             (pipeline.tnr_mode = 2 /\ pipeline.interpolation = "Nicest")
        /\ pipeline.width = args.width
        /\ pipeline.height = args.height

\* a high-quality handle has been built after a low-latency one
C11_Witness ==
    /\ cycle = 2
    /\ pc = "body"
    /\ ~args.low_latency
    /\ pipeline.tnr_mode = 2
    /\ dpc[1] = "done"

\* C12: under fair scheduling, a clear_buffer thread that is running when
\* release has been called on its handle eventually terminates, whichever
\* statement it was at, and a coordinator waiting in join eventually gets
\* control back.
C12_DrainerTerminatesAfterRelease ==
    /\ \A h \in Handles :
         (releases[h] > 0 /\ DrainerAlive(h)) ~> (dpc[h] = "done")
    /\ (pc = "joining") ~> (pc = "returned")

\* release has happened while the drainer was between its status check and
\* its grab
C12_Witness ==
    /\ pc = "joining"
    /\ releases[cycle] = 1
    /\ openOk[cycle]
    /\ dpc[cycle] = "grab"

\* C13: on a handle that is closed the drainer makes at most one grab: the
\* one whose status check passed before the release; a thread about to
\* grab on a closed handle has made none yet, and after that grab it only
\* yields, checks and terminates.
C13_AtMostOneGrabAfterClose ==
    \A h \in Handles :
      /\ closedGrabs[h] <= 1
      /\ (dpc[h] = "grab" /\ ~opened[h]) =>
            (closedGrabs[h] = 0 /\ openOk[h] /\ releases[h] > 0)
      /\ closedGrabs[h] = 1 =>
            (~opened[h] /\ dpc[h] \in {"yield", "check", "done"})

\* the drainer made its one late grab on the released handle and exited
C13_Witness ==
    \E h \in Handles :
      closedGrabs[h] = 1 /\ dpc[h] = "done" /\ releases[h] = 1

\* C14 as stated: a drainer thread exists only for a handle that was
\* created and opened, and only in low-latency mode.
C14_DrainerOnlyForOpenedHandle ==
    \A h \in Handles :
      dpc[h] # "none" =>
        /\ Created(h)
        /\ openOk[h]
        /\ h = cycle => args.low_latency

\* C14 amended: a drainer thread is started only by the coordinator, after
\* create_cap has returned the handle, only in low-latency mode and only
\* once per handle; it is started for a handle whose open failed too, and
\* then it makes no grab and ends at its first status check.
C14_DrainerOnlyAfterCreate ==
    /\ [](\A h \in Handles :
            dpc[h] # "none" =>
              /\ Created(h)
              /\ h = cycle => args.low_latency
              /\ ~openOk[h] => (~grabbed[h] /\ dpc[h] \in {"check", "done"}))
    /\ [][\A h \in Handles :
            (dpc[h] = "none" /\ dpc'[h] # "none") =>
              (h = cycle /\ pc = "start" /\ dpc'[h] = "check")]_vars
    /\ [][(pc = "start" /\ pc' = "body") => dpc[cycle] = "none"]_vars

\* the thread of a low-latency handle whose open failed was started and
\* has ended
C14_Witness ==
    /\ pc = "body"
    /\ args.low_latency
    /\ Created(cycle)
    /\ ~openOk[cycle]
    /\ dpc[cycle] = "done"

\* C15: when cap_context fails after creating the handle and before
\* handing it over (the thread cannot be started), the handle has been
\* released when the error reaches the caller.
C15_ReleasedWhenEnterFails ==
    \A h \in Handles :
      scope[h] = "failed" =>
        /\ ~opened[h]
        /\ openOk[h] => releases[h] = 1

\* C16: a grab that fails on an open handle changes nothing else: the
\* thread goes on to its yield and its next status check, it stays alive
\* as long as the handle is open, the handle stays open until the
\* coordinator releases it, and a read issued afterwards succeeds.
C16_FailedGrabIgnored ==
    /\ [](\A h \in Handles :
            /\ (failedGrabs[h] /\ opened[h]) => DrainerAlive(h)
            /\ (failedGrabs[h] /\ releases[h] = 0) => opened[h])
    /\ []((lastRead.done /\ lastRead.afterFailedGrab) => lastRead.ok)
    /\ [][\A h \in Handles :
            /\ (dpc[h] = "grab" /\ dpc'[h] # "grab") =>
                  (dpc'[h] = "yield" /\ opened'[h] = opened[h])
            /\ (dpc[h] = "yield" /\ dpc'[h] # "yield") => dpc'[h] = "check"]_vars

\* a read of the body returned a frame after a grab of the drainer had
\* failed, and the drainer is still looping
C16_Witness ==
    /\ pc = "body"
    /\ lastRead.afterFailedGrab
    /\ lastRead.ok
    /\ opened[cycle]
    /\ dpc[cycle] = "grab"
====
